---- MODULE Spec2Model ----
(***************************************************************************)
(* Model of the batched-token server of the privacypass crate:             *)
(*   src/src/batched_tokens/server.rs  (Server: create_keypair,            *)
(*                                      issue_token_response, redeem_token)*)
(*   src/src/batched_tokens/mod.rs     (wire codec of TokenRequest and     *)
(*                                      TokenResponse)                     *)
(*                                                                         *)
(* Every caller is a process.  A call is split at the await points of the  *)
(* code: each store operation (nonce_store.exists, key_store.get,          *)
(* nonce_store.insert, key_store.insert) is one atomic step, together with *)
(* the synchronous code that runs up to it and after it up to the next     *)
(* await.  A finished call keeps its result in ret until the caller takes  *)
(* it (Return); a call in flight may be dropped at any await (Cancel).     *)
(***************************************************************************)
EXTENDS Integers, Sequences, FiniteSets, TLC

\* ------------------------------------------------------------------ bounds
NumProcs == 2      \* concurrent callers
MaxKeyId == 1      \* key ids 1..MaxKeyId that callers create keypairs under
MaxSeed == 2       \* outcomes 0..MaxSeed of one draw of the random source
MaxNonce == 2      \* nonce values 1..MaxNonce
MaxAuth == 1       \* authenticator values 0..MaxAuth
MaxElem == 2       \* group elements 1..MaxElem (0 encodes the identity)
MaxBatch == 2      \* blinded elements per request
MaxTrail == 2      \* bytes appended to an encoding

\* ------------------------------------------------------- program constants
Batched == 63770   \* TokenType::Batched, 0xF91A
NonceLen == 32     \* Nonce = [u8; 32]
OutputSize == 64   \* <CS::Hash as OutputSizeUser>::output_size(), SHA-512
ElemLen == 32      \* Ne, a serialized group element
ProofLen == 64     \* Ns + Ns, a serialized proof

Procs == 1..NumProcs
KeyIds == 1..MaxKeyId
\* The key ids a message can name (KeyId is a u8): those, and one that no
\* caller creates a keypair under.
MessageKeyIds == 1..(MaxKeyId + 1)
RngOut == 0..MaxSeed
NoKey == 0         \* Option::None of key_store.get

\* The byte strings of the model are those of n bytes that all have the value
\* v, kept as the pair of n and v; Bytes gives the bytes themselves.
Fill(n, v) == [len |-> n, fill |-> v]
Bytes(b) == [i \in 1..b.len |-> b.fill]

TokenTypes == {1, Batched}
Nonces == {Fill(NonceLen, v) : v \in 1..MaxNonce}
TokenNonces == Nonces \cup {Fill(NonceLen - 1, 1)}
Authenticators ==
    {Fill(OutputSize, v) : v \in 0..MaxAuth} \cup {Fill(OutputSize - 1, 0)}

\* auth::authorize::Token as redeem_token reads it.
Tokens ==
    [token_type : TokenTypes, nonce : TokenNonces, challenge_digest : {0},
     token_key_id : MessageKeyIds, authenticator : Authenticators]

RECURSIVE SeqsUpTo(_, _)
SeqsUpTo(S, n) ==
    IF n = 0 THEN {<<>>}
    ELSE LET shorter == SeqsUpTo(S, n - 1) IN
         shorter \cup {Append(s, x) : s \in {t \in shorter : Len(t) = n - 1}, x \in S}

BlindedElements == {Fill(ElemLen, v) : v \in 0..MaxElem}

\* TokenRequest (mod.rs): token_type, token_key_id, blinded_elements.
TokenRequests ==
    [token_type : TokenTypes, token_key_id : MessageKeyIds,
     blinded_elements : SeqsUpTo(BlindedElements, MaxBatch)]

\* --------------------------------------------------------------- the state
VARIABLES
    key_store,    \* KeyStore: key id -> keypair (its secret), NoKey if absent
    nonce_store,  \* NonceStore: the set of spent nonces
    pc,           \* per caller: where its call stands
    arg,          \* per caller: the call and its argument
    server,       \* per caller: the local `server` (the keypair looked up)
    ops,          \* per caller: the store operations the call has performed
    ret,          \* per caller: the result of the finished call
    hist,         \* per caller, in flight: what held when the call was made
    value,        \* codec: the message a caller encodes
    buf,          \* codec: the bytes written, and handed to the decoder
    result,       \* codec: what the decoder returned
    size,         \* codec: what tls_serialized_len returned, -1 before the call
    written       \* codec: what tls_serialize returned, -1 before the call

server_vars == <<key_store, nonce_store, pc, arg, server, ops, ret, hist>>
codec == <<value, buf, result, size, written>>
vars ==
    <<key_store, nonce_store, pc, arg, server, ops, ret, hist,
      value, buf, result, size, written>>

NoArg == [op |-> "none"]
NoRet == [err |-> "none", val |-> 0]
NoHist == [spent |-> FALSE, prior |-> {}]
Ok(v) == [err |-> "Ok", val |-> v]
Err(e) == [err |-> e, val |-> 0]

InFlight ==
    {"redeem_exists", "redeem_get", "redeem_insert", "issue_get", "create_insert"}

\* A caller makes a call when it has none in flight; the result of its last
\* call, if it still holds one, is taken with that.
CanCall(p) == pc[p] \in {"idle", "done"}

\* The call begins: the future holds the argument, nothing of it has run.
Called(p, at, a) ==
    /\ pc' = [pc EXCEPT ![p] = at]
    /\ arg' = [arg EXCEPT ![p] = a]
    /\ server' = [server EXCEPT ![p] = NoKey]
    /\ ops' = [ops EXCEPT ![p] = <<>>]
    /\ ret' = [ret EXCEPT ![p] = NoRet]

\* ------------------------------------------------- the VOPRF library (voprf)
\* VoprfServer::new_from_seed: the keypair (its secret) of a seed, or -1,
\* an error.
NewFromSeed(seed) == IF seed = 0 THEN -1 ELSE seed

\* VoprfServer::get_public_key
GetPublicKey(sk) == (sk * 3) % 251

\* TokenInput { token_type, nonce, context, key_id } of a token.
TokenInputOf(token) ==
    [token_type |-> token.token_type, nonce |-> token.nonce,
     context |-> token.challenge_digest, key_id |-> token.token_key_id]

\* VoprfServer::evaluate on the serialized TokenInput: a keyed function of
\* every field of the input, OutputSize bytes long.
Evaluate(sk, input) ==
    Fill(OutputSize,
         (sk + input.nonce.fill + input.context + input.key_id
             + (IF input.token_type = Batched THEN 0 ELSE 1)) % (MaxAuth + 1))

\* BlindedElement::<CS>::deserialize: the group element of ElemLen bytes; the
\* encoding of the identity is refused (-1).
DeserializeElement(bytes) ==
    IF bytes.len = ElemLen /\ bytes.fill # 0 THEN bytes.fill ELSE -1

\* One blind evaluation: the element multiplied by the secret.
BlindEvaluate(sk, elem) == (elem * sk) % 251

\* EvaluationElement::serialize
SerializeElement(elem) == Fill(ElemLen, elem)

\* Proof::serialize: the two scalars (c, s), ProofLen / 2 bytes each.
SerializeProof(c, s) == <<Fill(ProofLen \div 2, c), Fill(ProofLen \div 2, s)>>

\* ------------------------------------------------------ the stores (traits)
\* key_store.get(&key_id)
KeyStoreGet(store, key_id) == store[key_id]

\* Mutant: a keypair already stored under the key id is kept.
KeyStoreInsertIfAbsent(store, key_id, sk) ==
    IF store[key_id] = NoKey THEN [store EXCEPT ![key_id] = sk] ELSE store

\* key_store.insert(key_id, server)
KeyStoreInsert(store, key_id, sk) == [store EXCEPT ![key_id] = sk]

\* Mutant: any spent nonce makes every nonce count as spent.
NonceStoreExistsAny(store, nonce) == store # {}

\* nonce_store.exists(&nonce)
NonceStoreExists(store, nonce) == nonce \in store

\* Mutant: the insert is lost.
NonceStoreInsertLost(store, nonce) == store

\* Mutant: the insert replaces what the store held.
NonceStoreInsertOnly(store, nonce) == {nonce}

\* nonce_store.insert(nonce)
NonceStoreInsert(store, nonce) == store \cup {nonce}

\* ------------------------------------------------------------ redeem_token
\* Mutant: the length of the authenticator is not checked.
TokenShapeErrorNoLength(token) ==
    \/ token.token_type # Batched
    \/ token.nonce.len # NonceLen

\* The checks made before the nonce store is consulted: token type,
\* authenticator length, nonce size.
TokenShapeError(token) ==
    \/ token.token_type # Batched
    \/ token.authenticator.len # OutputSize
    \/ token.nonce.len # NonceLen

\* Mutant: the answer of nonce_store.exists is not looked at.
RedeemAfterExistsIgnored(exists) == "continue"

\* if nonce_store.exists(&nonce).await { return Err(DoubleSpending) }
RedeemAfterExists(exists) == IF exists THEN "DoubleSpending" ELSE "continue"

\* Mutant: only the lengths of the two authenticators are compared.
AuthenticatorLengthMatches(token, sk) ==
    token.authenticator.len = Evaluate(sk, TokenInputOf(token)).len

\* token.authenticator == token_authenticator
AuthenticatorMatches(token, sk) ==
    token.authenticator = Evaluate(sk, TokenInputOf(token))

\* Mutant: a missing keypair is reported as InvalidToken.
RedeemAfterGetNoKeyInvalid(token, sk) ==
    IF sk = NoKey THEN "InvalidToken"
    ELSE IF token.authenticator = Evaluate(sk, TokenInputOf(token)) THEN "insert"
    ELSE "InvalidToken"

\* Mutant: the nonce is recorded whatever the comparison says.
RedeemAfterGetAlwaysInsert(token, sk) ==
    IF sk = NoKey THEN "KeyIdNotFound" ELSE "insert"

\* From the key lookup to the comparison: the error returned, or "insert".
RedeemAfterGet(token, sk) ==
    IF sk = NoKey THEN "KeyIdNotFound"
    ELSE IF AuthenticatorMatches(token, sk) THEN "insert"
    ELSE "InvalidToken"

\* What the finished redemptions of the same token show the caller of a new
\* one: each result, with the keypair it was compared against (NoKey if the
\* call returned before the lookup).
PriorResults(token) ==
    {<<ret[q].err, server[q]>> : q \in
        {q \in Procs :
            /\ pc[q] = "done"
            /\ arg[q] = [op |-> "redeem", token |-> token]}}

\* The caller makes the call: the future holds the token, nothing has run.
RedeemCall(p, token) ==
    /\ UNCHANGED codec
    /\ CanCall(p)
    /\ Called(p, "redeem_exists", [op |-> "redeem", token |-> token])
    /\ hist' = [hist EXCEPT ![p] =
                  [spent |-> token.nonce \in nonce_store,
                   prior |-> PriorResults(token)]]
    /\ UNCHANGED <<key_store, nonce_store>>

\* The shape checks and nonce_store.exists.
RedeemExists(p) ==
    /\ UNCHANGED codec
    /\ pc[p] = "redeem_exists"
    /\ LET token == arg[p].token
           shape == TokenShapeError(token)
           out == IF shape THEN "InvalidToken"
                  ELSE RedeemAfterExists(NonceStoreExists(nonce_store, token.nonce))
       IN  /\ ops' = [ops EXCEPT ![p] =
                        IF shape THEN @ ELSE Append(@, "nonce_store.exists")]
           /\ IF out = "continue"
              THEN /\ pc' = [pc EXCEPT ![p] = "redeem_get"]
                   /\ UNCHANGED <<ret, hist>>
              ELSE /\ pc' = [pc EXCEPT ![p] = "done"]
                   /\ ret' = [ret EXCEPT ![p] = Err(out)]
                   /\ hist' = [hist EXCEPT ![p] = NoHist]
    /\ UNCHANGED <<key_store, nonce_store, arg, server>>

\* key_store.get, the evaluation and the comparison.
RedeemGet(p) ==
    /\ UNCHANGED codec
    /\ pc[p] = "redeem_get"
    /\ LET token == arg[p].token
           sk == KeyStoreGet(key_store, token.token_key_id)
           out == RedeemAfterGet(token, sk)
       IN  /\ ops' = [ops EXCEPT ![p] = Append(@, "key_store.get")]
           /\ server' = [server EXCEPT ![p] = sk]
           /\ IF out = "insert"
              THEN /\ pc' = [pc EXCEPT ![p] = "redeem_insert"]
                   /\ UNCHANGED <<ret, hist>>
              ELSE /\ pc' = [pc EXCEPT ![p] = "done"]
                   /\ ret' = [ret EXCEPT ![p] = Err(out)]
                   /\ hist' = [hist EXCEPT ![p] = NoHist]
    /\ UNCHANGED <<key_store, nonce_store, arg>>

\* nonce_store.insert(nonce).await; Ok(())
RedeemInsert(p) ==
    /\ UNCHANGED codec
    /\ pc[p] = "redeem_insert"
    /\ nonce_store' = NonceStoreInsert(nonce_store, arg[p].token.nonce)
    /\ ops' = [ops EXCEPT ![p] = Append(@, "nonce_store.insert")]
    /\ pc' = [pc EXCEPT ![p] = "done"]
    /\ ret' = [ret EXCEPT ![p] = Ok(0)]
    /\ hist' = [hist EXCEPT ![p] = NoHist]
    /\ UNCHANGED <<key_store, arg, server>>

\* ---------------------------------------------------- issue_token_response
\* Mutant: the token type of the request is not checked.
IssueTypeErrorNever(req) == FALSE

\* if token_request.token_type != TokenType::Batched
IssueTypeError(req) == req.token_type # Batched

\* Mutant: each deserialized element is put in front of the earlier ones.
RECURSIVE DeserializeAllReversed(_, _)
DeserializeAllReversed(elements, blinded) ==
    IF elements = <<>> THEN [ok |-> TRUE, val |-> blinded]
    ELSE LET e == DeserializeElement(Head(elements)) IN
         IF e = -1 THEN [ok |-> FALSE, val |-> <<>>]
         ELSE DeserializeAllReversed(Tail(elements), <<e>> \o blinded)

\* Mutant: an element that fails to deserialize is left out of the batch.
RECURSIVE DeserializeAllSkipping(_, _)
DeserializeAllSkipping(elements, blinded) ==
    IF elements = <<>> THEN [ok |-> TRUE, val |-> blinded]
    ELSE LET e == DeserializeElement(Head(elements)) IN
         IF e = -1 THEN DeserializeAllSkipping(Tail(elements), blinded)
         ELSE DeserializeAllSkipping(Tail(elements), Append(blinded, e))

\* The loop over token_request.blinded_elements: each one deserialized and
\* pushed, the first failure ending the call.
RECURSIVE DeserializeAll(_, _)
DeserializeAll(elements, blinded) ==
    IF elements = <<>> THEN [ok |-> TRUE, val |-> blinded]
    ELSE LET e == DeserializeElement(Head(elements)) IN
         IF e = -1 THEN [ok |-> FALSE, val |-> <<>>]
         ELSE DeserializeAll(Tail(elements), Append(blinded, e))

\* server.batch_blind_evaluate_prepare(blinded_elements.iter()).collect()
BatchBlindEvaluatePrepare(sk, blinded) ==
    [i \in 1..Len(blinded) |-> BlindEvaluate(sk, blinded[i])]

\* Mutant: one proof for each element of the batch, one after the other.
BatchBlindEvaluateFinishProofEach(sk, r, blinded, prepared) ==
    [ok |-> TRUE, messages |-> prepared,
     proof |-> [i \in 1..(2 * Len(blinded)) |-> Fill(ProofLen \div 2, r)]]

\* server.batch_blind_evaluate_finish(rng, blinded_elements.iter(), &prepared):
\* the messages in the order of the prepared elements and one proof (c, s).
BatchBlindEvaluateFinish(sk, r, blinded, prepared) ==
    IF Len(blinded) # Len(prepared) THEN [ok |-> FALSE, messages |-> <<>>, proof |-> <<>>]
    ELSE [ok |-> TRUE, messages |-> prepared,
          proof |-> SerializeProof((sk + Len(blinded)) % 251, r)]

\* messages.map(|m| EvaluatedElement { m.serialize() }).collect()
RECURSIVE CollectEvaluated(_, _)
CollectEvaluated(messages, evaluated) ==
    IF messages = <<>> THEN evaluated
    ELSE CollectEvaluated(Tail(messages),
                          Append(evaluated, SerializeElement(Head(messages))))

\* After the key lookup succeeded: parse, evaluate the batch, build the response.
IssueEvaluate(req, sk, r) ==
    LET blinded == DeserializeAll(req.blinded_elements, <<>>) IN
    IF ~blinded.ok THEN Err("InvalidTokenRequest")
    ELSE LET prepared == BatchBlindEvaluatePrepare(sk, blinded.val)
             fin == BatchBlindEvaluateFinish(sk, r, blinded.val, prepared)
         IN  IF ~fin.ok THEN Err("InvalidTokenRequest")
             ELSE Ok([evaluated_elements |-> CollectEvaluated(fin.messages, <<>>),
                      evaluated_proof |-> fin.proof])

\* .ok_or(IssueTokenResponseError::KeyIdNotFound)?, then the rest.
IssueAfterGet(req, sk, r) ==
    IF sk = NoKey THEN Err("KeyIdNotFound") ELSE IssueEvaluate(req, sk, r)

\* Mutant: the lookup stores a default keypair under every key id that has none.
IssueStoresDefaultKey ==
    /\ nonce_store' = nonce_store
    /\ key_store' =
          [k \in MessageKeyIds |-> IF key_store[k] = NoKey THEN 1 ELSE key_store[k]]

\* issue_token_response takes key_store by shared reference and no nonce store.
IssueStores == UNCHANGED <<key_store, nonce_store>>

IssueCall(p, req) ==
    /\ UNCHANGED codec
    /\ CanCall(p)
    /\ Called(p, "issue_get", [op |-> "issue", req |-> req])
    /\ hist' = [hist EXCEPT ![p] = NoHist]
    /\ IssueStores

\* The type check, key_store.get and all that follows it.
IssueGet(p) ==
    /\ UNCHANGED codec
    /\ pc[p] = "issue_get"
    /\ LET req == arg[p].req IN
       IF IssueTypeError(req)
       THEN /\ ret' = [ret EXCEPT ![p] = Err("InvalidTokenType")]
            /\ UNCHANGED <<ops, server>>
       ELSE LET sk == KeyStoreGet(key_store, req.token_key_id) IN
            /\ ops' = [ops EXCEPT ![p] = Append(@, "key_store.get")]
            /\ server' = [server EXCEPT ![p] = sk]
            /\ \E r \in RngOut :
                   ret' = [ret EXCEPT ![p] = IssueAfterGet(req, sk, r)]
    /\ pc' = [pc EXCEPT ![p] = "done"]
    /\ IssueStores
    /\ UNCHANGED <<arg, hist>>

\* ---------------------------------------------------------- create_keypair
CreateCall(p, key_id) ==
    /\ UNCHANGED codec
    /\ CanCall(p)
    /\ Called(p, "create_insert", [op |-> "create", key_id |-> key_id])
    /\ hist' = [hist EXCEPT ![p] = NoHist]
    /\ UNCHANGED <<key_store, nonce_store>>

\* The seed drawn, the keypair derived, key_store.insert.
CreateInsert(p) ==
    /\ UNCHANGED codec
    /\ pc[p] = "create_insert"
    /\ \E seed \in RngOut :
          LET sk == NewFromSeed(seed) IN
          IF sk = -1
          THEN /\ ret' = [ret EXCEPT ![p] = Err("SeedError")]
               /\ UNCHANGED <<key_store, ops>>
          ELSE /\ key_store' = KeyStoreInsert(key_store, arg[p].key_id, sk)
               /\ ops' = [ops EXCEPT ![p] = Append(@, "key_store.insert")]
               /\ ret' = [ret EXCEPT ![p] = Ok(GetPublicKey(sk))]
    /\ pc' = [pc EXCEPT ![p] = "done"]
    /\ UNCHANGED <<nonce_store, arg, server, hist>>

\* ------------------------------------------------------------- the callers
Forget(p) ==
    /\ UNCHANGED codec
    /\ pc' = [pc EXCEPT ![p] = "idle"]
    /\ arg' = [arg EXCEPT ![p] = NoArg]
    /\ server' = [server EXCEPT ![p] = NoKey]
    /\ ops' = [ops EXCEPT ![p] = <<>>]
    /\ ret' = [ret EXCEPT ![p] = NoRet]
    /\ hist' = [hist EXCEPT ![p] = NoHist]
    /\ UNCHANGED <<key_store, nonce_store>>

\* The caller takes the result of its finished call.
Return(p) == pc[p] = "done" /\ Forget(p)

\* The caller drops the future of a call in flight, at an await.
Cancel(p) == pc[p] \in InFlight /\ Forget(p)

NoValue == [evaluated_elements |-> <<>>, evaluated_proof |-> <<>>]
NoResult == [err |-> "none", val |-> NoValue, rest |-> <<>>]

\* The server as constructed, with empty stores and no call made.
ServerInit ==
    /\ key_store = [k \in MessageKeyIds |-> NoKey]
    /\ nonce_store = {}
    /\ pc = [p \in Procs |-> "idle"]
    /\ arg = [p \in Procs |-> NoArg]
    /\ server = [p \in Procs |-> NoKey]
    /\ ops = [p \in Procs |-> <<>>]
    /\ ret = [p \in Procs |-> NoRet]
    /\ hist = [p \in Procs |-> NoHist]

CodecIdle ==
    /\ value = NoValue /\ buf = <<>> /\ result = NoResult
    /\ size = -1 /\ written = -1

Init == ServerInit /\ CodecIdle

\* Callers of redeem_token and create_keypair whose calls interleave at the
\* await points.
Next ==
    \E p \in Procs :
        \/ \E token \in Tokens : RedeemCall(p, token)
        \/ RedeemExists(p)
        \/ RedeemGet(p)
        \/ RedeemInsert(p)
        \/ \E key_id \in KeyIds : CreateCall(p, key_id)
        \/ CreateInsert(p)
        \/ Return(p)
        \/ Cancel(p)

Spec == Init /\ [][Next]_vars

\* Callers of all three operations that take turns: a caller acts only while
\* no other caller has a call in flight or a result to take.
Alone(p) == \A q \in Procs \ {p} : pc[q] = "idle"

SeqNext ==
    \E p \in Procs :
        \/ Alone(p) /\ \E token \in Tokens : RedeemCall(p, token)
        \/ Alone(p) /\ RedeemExists(p)
        \/ Alone(p) /\ RedeemGet(p)
        \/ Alone(p) /\ RedeemInsert(p)
        \/ Alone(p) /\ \E req \in TokenRequests : IssueCall(p, req)
        \/ Alone(p) /\ IssueGet(p)
        \/ Alone(p) /\ \E key_id \in KeyIds : CreateCall(p, key_id)
        \/ Alone(p) /\ CreateInsert(p)
        \/ Alone(p) /\ Return(p)
        \/ Alone(p) /\ Cancel(p)

SeqSpec == Init /\ [][SeqNext]_vars

\* ------------------------------------------------------- the wire codec
\* The TokenResponse values a caller encodes: evaluated elements of ElemLen
\* bytes each and a proof of ProofLen bytes.
ResponseValues ==
    {[evaluated_elements |-> [i \in 1..Len(es) |-> Bytes(es[i])],
      evaluated_proof |-> Bytes(pr[1]) \o Bytes(pr[2])] :
        es \in SeqsUpTo({Fill(ElemLen, v) : v \in 0..MaxElem}, MaxBatch),
        pr \in {SerializeProof(c, r) : c \in RngOut, r \in RngOut}}

\* What a reader returns: the value read and the bytes left in the reader.
ReadOk(v, rest) == [ok |-> TRUE, val |-> v, rest |-> rest]
ReadErr == [ok |-> FALSE, val |-> <<>>, rest |-> <<>>]

\* u16::tls_serialize: two bytes, big-endian.
U16Serialize(n) == <<(n \div 256) % 256, n % 256>>

\* Mutant: the two bytes are read little-endian.
U16DeserializeLittleEndian(bytes) ==
    IF Len(bytes) < 2 THEN ReadErr
    ELSE ReadOk(bytes[1] + bytes[2] * 256, SubSeq(bytes, 3, Len(bytes)))

\* u16::tls_deserialize
U16Deserialize(bytes) ==
    IF Len(bytes) < 2 THEN ReadErr
    ELSE ReadOk(bytes[1] * 256 + bytes[2], SubSeq(bytes, 3, Len(bytes)))

\* Mutant: a short read leaves the rest of the array at zero and succeeds.
ReadExactZeroFill(bytes, n) ==
    IF Len(bytes) < n
    THEN ReadOk(bytes \o [i \in 1..(n - Len(bytes)) |-> 0], <<>>)
    ELSE ReadOk(SubSeq(bytes, 1, n), SubSeq(bytes, n + 1, Len(bytes)))

\* bytes.read_exact(&mut [0u8; n])
ReadExact(bytes, n) ==
    IF Len(bytes) < n THEN ReadErr
    ELSE ReadOk(SubSeq(bytes, 1, n), SubSeq(bytes, n + 1, Len(bytes)))

\* EvaluatedElement::tls_deserialize
EvaluatedElementDeserialize(bytes) == ReadExact(bytes, ElemLen)

\* EvaluatedElement::tls_serialized_len
EvaluatedElementLen(e) == ElemLen

RECURSIVE SerializeElements(_)
SerializeElements(elements) ==
    IF elements = <<>> THEN <<>>
    ELSE Head(elements) \o SerializeElements(Tail(elements))

RECURSIVE ElementsLen(_)
ElementsLen(elements) ==
    IF elements = <<>> THEN 0
    ELSE EvaluatedElementLen(Head(elements)) + ElementsLen(Tail(elements))

\* TlsVecU16::tls_serialize: the length of the content in bytes as a u16, then
\* the elements.
TlsVecU16Serialize(elements) ==
    U16Serialize(ElementsLen(elements)) \o SerializeElements(elements)

\* TlsVecU16::tls_deserialize: the length in bytes, then elements until that
\* many bytes are read.
RECURSIVE TlsVecU16ReadElements(_, _, _, _)
TlsVecU16ReadElements(bytes, len, read, vec) ==
    IF read >= len THEN ReadOk(vec, bytes)
    ELSE LET e == EvaluatedElementDeserialize(bytes) IN
         IF ~e.ok THEN ReadErr
         ELSE TlsVecU16ReadElements(e.rest, len, read + EvaluatedElementLen(e.val),
                                    Append(vec, e.val))

TlsVecU16Deserialize(bytes) ==
    LET len == U16Deserialize(bytes) IN
    IF ~len.ok THEN ReadErr
    ELSE TlsVecU16ReadElements(len.rest, len.val, 0, <<>>)

\* Serialize for TokenResponse
TokenResponseSerialize(x) ==
    TlsVecU16Serialize(x.evaluated_elements) \o x.evaluated_proof

\* Deserialize for TokenResponse
TokenResponseDeserialize(bytes) ==
    LET evaluated_elements == TlsVecU16Deserialize(bytes) IN
    IF ~evaluated_elements.ok THEN ReadErr
    ELSE LET evaluated_proof == ReadExact(evaluated_elements.rest, ProofLen) IN
         IF ~evaluated_proof.ok THEN ReadErr
         ELSE ReadOk([evaluated_elements |-> evaluated_elements.val,
                      evaluated_proof |-> evaluated_proof.val],
                     evaluated_proof.rest)

\* TokenResponse::try_from_bytes: the response, with what is left of the
\* local slice `bytes`, or InvalidData.
TokenResponseTryFromBytes(bytes) ==
    LET r == TokenResponseDeserialize(bytes) IN
    IF r.ok THEN [err |-> "Ok", val |-> r.val, rest |-> r.rest]
    ELSE [err |-> "InvalidData", val |-> NoValue, rest |-> <<>>]

\* The TokenRequest values a caller encodes.
RequestValues ==
    {[token_type |-> r.token_type, token_key_id |-> r.token_key_id,
      blinded_elements |->
          [i \in 1..Len(r.blinded_elements) |-> Bytes(r.blinded_elements[i])]] :
        r \in TokenRequests}

IsRequest(x) == "token_type" \in DOMAIN x

\* TokenType::tls_serialize, tls_deserialize and tls_serialized_len: a 16-bit
\* code of a closed enumeration.
TokenTypeSerialize(t) == U16Serialize(t)

TokenTypeDeserialize(bytes) ==
    LET code == U16Deserialize(bytes) IN
    IF code.ok /\ code.val \in TokenTypes THEN code ELSE ReadErr

TokenTypeLen(t) == 2

\* u8::tls_serialize, tls_deserialize and tls_serialized_len
U8Serialize(n) == <<n>>

U8Deserialize(bytes) ==
    LET b == ReadExact(bytes, 1) IN
    IF b.ok THEN ReadOk(b.val[1], b.rest) ELSE ReadErr

U8Len(n) == 1

\* BlindedElement::tls_deserialize
BlindedElementDeserialize(bytes) == ReadExact(bytes, ElemLen)

\* BlindedElement::tls_serialized_len
BlindedElementLen(e) == ElemLen

RECURSIVE SerializeBlinded(_)
SerializeBlinded(elements) ==
    IF elements = <<>> THEN <<>>
    ELSE Head(elements) \o SerializeBlinded(Tail(elements))

RECURSIVE BlindedLen(_)
BlindedLen(elements) ==
    IF elements = <<>> THEN 0
    ELSE BlindedElementLen(Head(elements)) + BlindedLen(Tail(elements))

\* TlsVecU16<BlindedElement>::tls_serialize
TlsVecU16SerializeBlinded(elements) ==
    U16Serialize(BlindedLen(elements)) \o SerializeBlinded(elements)

\* TlsVecU16<BlindedElement>::tls_deserialize
RECURSIVE TlsVecU16ReadBlinded(_, _, _, _)
TlsVecU16ReadBlinded(bytes, len, read, vec) ==
    IF read >= len THEN ReadOk(vec, bytes)
    ELSE LET e == BlindedElementDeserialize(bytes) IN
         IF ~e.ok THEN ReadErr
         ELSE TlsVecU16ReadBlinded(e.rest, len, read + BlindedElementLen(e.val),
                                   Append(vec, e.val))

TlsVecU16DeserializeBlinded(bytes) ==
    LET len == U16Deserialize(bytes) IN
    IF ~len.ok THEN ReadErr
    ELSE TlsVecU16ReadBlinded(len.rest, len.val, 0, <<>>)

\* Serialize for TokenRequest: the bytes written.
TokenRequestSerialize(x) ==
    TokenTypeSerialize(x.token_type) \o U8Serialize(x.token_key_id)
        \o TlsVecU16SerializeBlinded(x.blinded_elements)

\* Serialize for TokenRequest: the Ok(usize) returned, the sum of what the
\* three fields' tls_serialize returned.
TokenRequestWritten(x) ==
    Len(TokenTypeSerialize(x.token_type)) + Len(U8Serialize(x.token_key_id))
        + Len(TlsVecU16SerializeBlinded(x.blinded_elements))

\* Size for TokenRequest
TokenRequestSerializedLen(x) ==
    TokenTypeLen(x.token_type) + U8Len(x.token_key_id)
        + BlindedLen(x.blinded_elements)

\* Deserialize for TokenRequest
TokenRequestDeserialize(bytes) ==
    LET token_type == TokenTypeDeserialize(bytes) IN
    IF ~token_type.ok THEN ReadErr
    ELSE LET token_key_id == U8Deserialize(token_type.rest) IN
         IF ~token_key_id.ok THEN ReadErr
         ELSE LET blinded_elements == TlsVecU16DeserializeBlinded(token_key_id.rest) IN
              IF ~blinded_elements.ok THEN ReadErr
              ELSE ReadOk([token_type |-> token_type.val,
                           token_key_id |-> token_key_id.val,
                           blinded_elements |-> blinded_elements.val],
                          blinded_elements.rest)

\* Serialize for TokenResponse: the Ok(usize) returned.
TokenResponseWritten(x) ==
    Len(TlsVecU16Serialize(x.evaluated_elements)) + Len(x.evaluated_proof)

\* TlsVecU16<EvaluatedElement>::tls_serialized_len
TlsVecU16SerializedLen(elements) == Len(U16Serialize(0)) + ElementsLen(elements)

\* Size for TokenResponse
TokenResponseSerializedLen(x) ==
    TlsVecU16SerializedLen(x.evaluated_elements) + Len(x.evaluated_proof)

\* The three calls on the message a caller holds, whichever type it has.
Serialize(x) ==
    IF IsRequest(x) THEN TokenRequestSerialize(x) ELSE TokenResponseSerialize(x)

Written(x) ==
    IF IsRequest(x) THEN TokenRequestWritten(x) ELSE TokenResponseWritten(x)

SerializedLen(x) ==
    IF IsRequest(x) THEN TokenRequestSerializedLen(x)
    ELSE TokenResponseSerializedLen(x)

\* tls_deserialize of the type of x on a reader over bytes: the value and
\* what is left in the reader, or tls_codec::Error.
TlsDeserialize(x, bytes) ==
    LET r == IF IsRequest(x) THEN TokenRequestDeserialize(bytes)
             ELSE TokenResponseDeserialize(bytes) IN
    IF r.ok THEN [err |-> "Ok", val |-> r.val, rest |-> r.rest]
    ELSE [err |-> "Error", val |-> NoValue, rest |-> <<>>]

\* A caller encodes its message into an empty buffer: tls_serialized_len
\* sizes the buffer, tls_serialize writes into it.
Encode ==
    /\ written = -1
    /\ size' = SerializedLen(value)
    /\ buf' = Serialize(value)
    /\ written' = Written(value)
    /\ UNCHANGED <<value, result>>
    /\ UNCHANGED server_vars

\* A byte follows the encoding in the buffer.
AppendByte(b) ==
    /\ written # -1
    /\ result = NoResult
    /\ Len(buf) >= Len(Serialize(value))
    /\ Len(buf) < Len(Serialize(value)) + MaxTrail
    /\ buf' = Append(buf, b)
    /\ UNCHANGED <<value, result, size, written>>
    /\ UNCHANGED server_vars

\* The buffer is cut short: only its first n bytes are kept.
Truncate(n) ==
    /\ written # -1
    /\ result = NoResult
    /\ buf = Serialize(value)
    /\ n < Len(buf)
    /\ buf' = SubSeq(buf, 1, n)
    /\ UNCHANGED <<value, result, size, written>>
    /\ UNCHANGED server_vars

\* A caller hands the buffer to TokenResponse::try_from_bytes.
TryFromBytes ==
    /\ written # -1
    /\ ~IsRequest(value)
    /\ result = NoResult
    /\ result' = TokenResponseTryFromBytes(buf)
    /\ UNCHANGED <<value, buf, size, written>>
    /\ UNCHANGED server_vars

\* A caller hands a reader over the buffer to tls_deserialize of the type of
\* its message.
Deserialize ==
    /\ written # -1
    /\ result = NoResult
    /\ result' = TlsDeserialize(value, buf)
    /\ UNCHANGED <<value, buf, size, written>>
    /\ UNCHANGED server_vars

CodecInit ==
    /\ ServerInit
    /\ value \in ResponseValues \cup RequestValues
    /\ buf = <<>>
    /\ result = NoResult
    /\ size = -1
    /\ written = -1

CodecNext ==
    \/ Encode
    \/ \E b \in {0, 255} : AppendByte(b)
    \/ \E n \in 0..(2 + MaxBatch * ElemLen + ProofLen) : Truncate(n)
    \/ TryFromBytes
    \/ Deserialize

\* Callers of the codec: encode a message, decode the bytes received.
CodecSpec == CodecInit /\ [][CodecNext]_vars

\* ================================================================== claims
RedeemPcs == {"redeem_exists", "redeem_get", "redeem_insert"}

\* Caller p holds the result of a finished redeem_token call.
RedeemDone(p) == pc[p] = "done" /\ arg[p].op = "redeem"

\* Caller p holds the result of a finished issue_token_response call.
IssueDone(p) == pc[p] = "done" /\ arg[p].op = "issue"

\* This step is the one in which p's redeem_token call returns.
RedeemReturns(p) == pc[p] \in RedeemPcs /\ pc'[p] = "done"

\* The authenticator is the one keypair sk computes for the token's TokenInput.
AuthenticatorOf(token, sk) ==
    token.authenticator = Evaluate(sk, TokenInputOf(token))

\* A valid token: accepted type, hash-sized authenticator, 32-byte nonce, key
\* id present in the key store ks, authenticator computed by that keypair.
ValidToken(token, ks) ==
    /\ token.token_type = Batched
    /\ token.authenticator.len = OutputSize
    /\ token.nonce.len = NonceLen
    /\ ks[token.token_key_id] # NoKey
    /\ AuthenticatorOf(token, ks[token.token_key_id])

\* ---- C1
\* C1: of the callers that redeem the same nonce concurrently at most one
\* returns Ok: no two callers both hold Ok for tokens with the same nonce.
C1_NoTwoOkForOneNonce ==
    \A p \in Procs : \A q \in Procs \ {p} :
        (/\ RedeemDone(p) /\ RedeemDone(q)
         /\ arg[p].token.nonce = arg[q].token.nonce
         /\ ret[p].err = "Ok")
        => ret[q].err # "Ok"

\* ---- C2
\* C2: with callers that take turns, redeem_token on a valid token whose nonce
\* is not spent returns Ok, and the caller's next redeem_token call with the
\* identical token returns DoubleSpending.
C2_OkThenDoubleSpending ==
    [][\A p \in Procs :
          RedeemReturns(p) =>
              /\ (ValidToken(arg[p].token, key_store) /\ ~hist[p].spent)
                     => ret'[p].err = "Ok"
              /\ (\E pr \in hist[p].prior : pr[1] = "Ok")
                     => ret'[p].err = "DoubleSpending"]_vars

\* A caller holds DoubleSpending for a token that the key store makes valid:
\* the second redemption of a token redeemed before.
C2_Witness ==
    \E p \in Procs :
        /\ RedeemDone(p)
        /\ ret[p].err = "DoubleSpending"
        /\ ValidToken(arg[p].token, key_store)
        /\ arg[p].token.nonce \in nonce_store

\* ---- C3
\* C3 as stated: every redeem_token call made once its nonce is in the nonce
\* store returns DoubleSpending, and no step removes a nonce from the store.
C3_SpentAlwaysDoubleSpending ==
    [][/\ \A p \in Procs :
            (RedeemReturns(p) /\ hist[p].spent) => ret'[p].err = "DoubleSpending"
       /\ nonce_store \subseteq nonce_store']_vars

\* C3 amended: a redeem_token call made once its nonce is in the nonce store
\* never returns Ok: it returns DoubleSpending when the token has the accepted
\* type and a hash-sized authenticator, InvalidToken when it has not; and no
\* step removes a nonce from the store.
C3_SpentNeverRedeemed ==
    [][/\ \A p \in Procs :
            (RedeemReturns(p) /\ hist[p].spent) =>
                ret'[p].err =
                    IF /\ arg[p].token.token_type = Batched
                       /\ arg[p].token.authenticator.len = OutputSize
                    THEN "DoubleSpending" ELSE "InvalidToken"
       /\ nonce_store \subseteq nonce_store']_vars

\* One caller holds DoubleSpending for a spent nonce while another holds
\* InvalidToken for a malformed token that carries the same nonce.
C3_Witness ==
    \E p \in Procs : \E q \in Procs \ {p} :
        /\ RedeemDone(p) /\ RedeemDone(q)
        /\ arg[p].token.nonce \in nonce_store
        /\ arg[q].token.nonce = arg[p].token.nonce
        /\ ret[p].err = "DoubleSpending"
        /\ ret[q].err = "InvalidToken"
        /\ arg[q].token.token_type # Batched

\* ---- C4
\* The keypair p's redeem_token call compares against: the one it looked up,
\* or, before the lookup, the one stored under the token's key id.
KeyCompared(p) ==
    IF pc[p] = "redeem_insert" THEN server[p]
    ELSE key_store[arg[p].token.token_key_id]

\* The token of p's call carries an authenticator other than the one the
\* keypair computes.
Tampered(p) ==
    /\ KeyCompared(p) # NoKey
    /\ ~AuthenticatorOf(arg[p].token, KeyCompared(p))

C5_RejectionTerminal ==
    [][\A p \in Procs :
          (/\ RedeemReturns(p)
           /\ \E pr \in hist[p].prior : pr[1] \in {"DoubleSpending", "InvalidToken"})
          => ret'[p].err # "Ok"]_vars

\* C5 amended: a redeem_token call made after a call with the same token
\* returned DoubleSpending does not return Ok; one made after a call with the
\* same token returned InvalidToken returns Ok only if that call had compared
\* the authenticator against a keypair and this call looked up another one.
C5_RejectionTerminalPerKey ==
    [][\A p \in Procs :
          (RedeemReturns(p) /\ ret'[p].err = "Ok") =>
              \A pr \in hist[p].prior :
                  /\ pr[1] # "DoubleSpending"
                  /\ pr[1] = "InvalidToken" =>
                        (pr[2] # NoKey /\ pr[2] # server[p])]_vars

\* A call made after the same token was refused with InvalidToken has passed
\* the comparison and is about to record the nonce.
C5_Witness ==
    \E p \in Procs :
        /\ pc[p] = "redeem_insert"
        /\ \E pr \in hist[p].prior : pr[1] = "InvalidToken"

\* ---- C6
\* This step is one of p's issue_token_response call: the call is made, runs,
\* is dropped, or its result is taken.
IssueActs(p) ==
    /\ pc'[p] # pc[p]
    /\ \/ pc[p] = "issue_get"
       \/ pc'[p] = "issue_get"
       \/ IssueDone(p) /\ pc'[p] = "idle"

\* C6: no step of an issue_token_response call, whatever its outcome and also
\* when the call is dropped, changes the key store or the nonce store, and the
\* only store operation the call performs is key_store.get.
C6_IssueChangesNoStore ==
    [][\A p \in Procs :
          IssueActs(p) =>
              /\ key_store' = key_store
              /\ nonce_store' = nonce_store
              /\ arg'[p].op = "issue" =>
                    \A i \in DOMAIN ops'[p] : ops'[p][i] = "key_store.get"]_vars

\* A caller holds a response of two elements while the stores are not empty.
C6_Witness ==
    \E p \in Procs :
        /\ IssueDone(p)
        /\ ret[p].err = "Ok"
        /\ Len(ret[p].val.evaluated_elements) = 2
        /\ ops[p] = <<"key_store.get">>
        /\ nonce_store # {}

\* ---- C7
\* C7: issue_token_response on a request whose type is not Batched returns
\* InvalidTokenType and has performed no store operation.
C7_WrongTypeNoLookup ==
    \A p \in Procs :
        (IssueDone(p) /\ arg[p].req.token_type # Batched) =>
            /\ ret[p].err = "InvalidTokenType"
            /\ ops[p] = <<>>

\* A caller holds InvalidTokenType for a request that names a stored key id and
\* carries a parseable element.
C7_Witness ==
    \E p \in Procs :
        /\ IssueDone(p)
        /\ arg[p].req.token_type # Batched
        /\ key_store[arg[p].req.token_key_id] # NoKey
        /\ Len(arg[p].req.blinded_elements) > 0
        /\ DeserializeElement(arg[p].req.blinded_elements[1]) # -1
        /\ ret[p].err = "InvalidTokenType"

\* ---- C8
\* The key id of the finished call of p.
CallKeyId(p) ==
    IF arg[p].op = "issue" THEN arg[p].req.token_key_id
    ELSE arg[p].token.token_key_id

\* Keypairs are never removed: a key id with no keypair never had one.
NeverInserted(p) == key_store[CallKeyId(p)] = NoKey

\* C8 as stated: issue_token_response and redeem_token on a message whose key
\* id was never inserted return KeyIdNotFound.
C8_UnknownKeyId ==
    \A p \in Procs :
        ((IssueDone(p) \/ RedeemDone(p)) /\ NeverInserted(p)) =>
            ret[p].err = "KeyIdNotFound"

\* C8 amended: on a message whose key id was never inserted they return the
\* error of the check that precedes the key lookup when that check fails
\* (InvalidTokenType for a request of another type; InvalidToken for a token
\* of another type, authenticator length or nonce size; DoubleSpending for a
\* spent nonce) and KeyIdNotFound otherwise.
C8_UnknownKeyIdAfterChecks ==
    \A p \in Procs :
        /\ (IssueDone(p) /\ NeverInserted(p)) =>
              ret[p].err =
                  IF arg[p].req.token_type # Batched THEN "InvalidTokenType"
                  ELSE "KeyIdNotFound"
        /\ (RedeemDone(p) /\ NeverInserted(p)) =>
              ret[p].err =
                  IF \/ arg[p].token.token_type # Batched
                     \/ arg[p].token.authenticator.len # OutputSize
                     \/ arg[p].token.nonce.len # NonceLen
                  THEN "InvalidToken"
                  ELSE IF arg[p].token.nonce \in nonce_store THEN "DoubleSpending"
                  ELSE "KeyIdNotFound"

\* A caller holds KeyIdNotFound for a well-formed token.
C8_Witness ==
    \E p \in Procs :
        /\ RedeemDone(p)
        /\ NeverInserted(p)
        /\ ~TokenShapeError(arg[p].token)
        /\ ret[p].err = "KeyIdNotFound"

\* ---- C9
\* C9: a successful issue_token_response returns as many evaluated elements as
\* the request has blinded elements, and element i is the blind evaluation of
\* blinded element i under the keypair stored under the request's key id.
C9_BatchOrder ==
    \A p \in Procs :
        (IssueDone(p) /\ ret[p].err = "Ok") =>
            LET req == arg[p].req
                sk == key_store[req.token_key_id]
                out == ret[p].val.evaluated_elements
            IN  /\ Len(out) = Len(req.blinded_elements)
                /\ \A i \in 1..Len(req.blinded_elements) :
                      out[i] = SerializeElement(
                          BlindEvaluate(sk, DeserializeElement(req.blinded_elements[i])))

\* A caller holds the response to a request of two different elements.
C9_Witness ==
    \E p \in Procs :
        /\ IssueDone(p)
        /\ ret[p].err = "Ok"
        /\ Len(arg[p].req.blinded_elements) = 2
        /\ arg[p].req.blinded_elements[1] # arg[p].req.blinded_elements[2]

\* ---- C10
\* C10: TokenResponse::try_from_bytes returns InvalidData whenever bytes follow
\* one complete TokenResponse encoding in its input, and when it succeeds no
\* byte of the input is left unread.
C10_TrailingBytesRefused ==
    [][TryFromBytes =>
          /\ Len(buf) > Len(TokenResponseSerialize(value))
                 => result'.err = "InvalidData"
          /\ result'.err = "Ok" => result'.rest = <<>>]_vars

\* ---- C11
\* C11: decoding the bytes that encoding a TokenRequest or a TokenResponse
\* produced succeeds and returns a value equal to the one encoded, field by
\* field, elements in the same order.
C11_RoundTrip ==
    (result # NoResult /\ buf = Serialize(value)) =>
        /\ result.err = "Ok"
        /\ result.val = value

\* A TokenRequest with two different blinded elements has been encoded and
\* decoded.
C11_Witness ==
    /\ result.err = "Ok"
    /\ buf = Serialize(value)
    /\ IsRequest(value)
    /\ Len(value.blinded_elements) = 2
    /\ value.blinded_elements[1] # value.blinded_elements[2]

\* ---- C12
\* The buffer holds a proper prefix of the encoding of the message.
ProperPrefix ==
    /\ Len(buf) < Len(Serialize(value))
    /\ buf = SubSeq(Serialize(value), 1, Len(buf))

\* C12: decoding a proper prefix of the encoding of a TokenRequest or a
\* TokenResponse returns an error and no structure.
C12_TruncatedRefused ==
    (result # NoResult /\ ProperPrefix) =>
        /\ result.err \in {"Error", "InvalidData"}
        /\ result.val = NoValue

\* The encoding of a TokenRequest with one blinded element has lost its last
\* byte and been refused.
C12_Witness ==
    /\ result.err = "Error"
    /\ IsRequest(value)
    /\ Len(value.blinded_elements) = 1
    /\ Len(buf) = Len(Serialize(value)) - 1
    /\ ProperPrefix

\* ---- C18
\* C18: what tls_serialized_len reports equals what tls_serialize writes and
\* returns: 2 + 1 + 2 + 32*n for a TokenRequest with n blinded elements,
\* 2 + 32*n + 64 for a TokenResponse with n evaluated elements.
C18_LengthMatchesWritten ==
    written # -1 =>
        /\ written = Len(Serialize(value))
        /\ size = written
        /\ written = IF IsRequest(value)
                     THEN 2 + 1 + 2 + 32 * Len(value.blinded_elements)
                     ELSE 2 + 32 * Len(value.evaluated_elements) + 64

\* ---- C13
RECURSIVE ProofBytes(_)
\* The number of bytes of a serialized proof.
ProofBytes(proof) ==
    IF proof = <<>> THEN 0 ELSE Head(proof).len + ProofBytes(Tail(proof))

C14_InsertOnlyAfterMatch ==
    [][nonce_store' # nonce_store =>
          \E p \in Procs :
              /\ pc[p] = "redeem_insert"
              /\ pc'[p] = "done"
              /\ ret'[p].err = "Ok"
              /\ server[p] # NoKey
              /\ AuthenticatorOf(arg[p].token, server[p])
              /\ nonce_store' = nonce_store \cup {arg[p].token.nonce}]_vars

\* One caller holds Ok and its nonce is recorded, another holds InvalidToken
\* for a well-formed token and its nonce is not.
C14_Witness ==
    \E p \in Procs : \E q \in Procs \ {p} :
        /\ RedeemDone(p) /\ ret[p].err = "Ok"
        /\ arg[p].token.nonce \in nonce_store
        /\ RedeemDone(q) /\ ret[q].err = "InvalidToken"
        /\ ~TokenShapeError(arg[q].token)
        /\ arg[q].token.nonce \notin nonce_store

\* ---- C15
\* What the checks of redeem_token give in the order type, authenticator
\* length, nonce size, nonce freshness, key lookup, comparison.
FirstFailingCheck(token, ks, ns) ==
    IF token.token_type # Batched THEN "InvalidToken"
    ELSE IF token.authenticator.len # OutputSize THEN "InvalidToken"
    ELSE IF token.nonce.len # NonceLen THEN "InvalidToken"
    ELSE IF token.nonce \in ns THEN "DoubleSpending"
    ELSE IF ks[token.token_key_id] = NoKey THEN "KeyIdNotFound"
    ELSE IF ~AuthenticatorOf(token, ks[token.token_key_id]) THEN "InvalidToken"
    ELSE "Ok"

\* C15: redeem_token returns the error of the first failing check in that
\* order, and a token of a wrong type or authenticator length is refused with
\* no nonce store operation made.
C15_ChecksInOrder ==
    [][\A p \in Procs :
          RedeemReturns(p) =>
              /\ ret'[p].err = FirstFailingCheck(arg[p].token, key_store, nonce_store)
              /\ (\/ arg[p].token.token_type # Batched
                  \/ arg[p].token.authenticator.len # OutputSize)
                    => ops'[p] = <<>>]_vars

\* A caller holds DoubleSpending for a well-formed token with a spent nonce
\* whose key id has no keypair.
C15_Witness ==
    \E p \in Procs :
        /\ RedeemDone(p)
        /\ ret[p].err = "DoubleSpending"
        /\ ~TokenShapeError(arg[p].token)
        /\ key_store[arg[p].token.token_key_id] = NoKey

\* ---- C16
\* Some blinded element of the request fails to parse.
BadElement(req) ==
    \E i \in DOMAIN req.blinded_elements :
        DeserializeElement(req.blinded_elements[i]) = -1

\* C16: issue_token_response checks the token type, then looks up the key,
\* then parses the elements: with an absent key id the result is
\* KeyIdNotFound even with a bad element; with the key present a bad element
\* at any position gives InvalidTokenRequest, a value that carries neither
\* the element's position nor a response.
C16_IssueChecksInOrder ==
    \A p \in Procs :
        IssueDone(p) =>
            LET req == arg[p].req IN
            IF req.token_type # Batched THEN ret[p] = Err("InvalidTokenType")
            ELSE IF key_store[req.token_key_id] = NoKey
                 THEN ret[p] = Err("KeyIdNotFound")
            ELSE IF BadElement(req) THEN ret[p] = Err("InvalidTokenRequest")
            ELSE ret[p].err = "Ok"

\* A caller holds InvalidTokenRequest for a request whose first element
\* parses and whose second does not.
C16_Witness ==
    \E p \in Procs :
        /\ IssueDone(p)
        /\ ret[p] = Err("InvalidTokenRequest")
        /\ Len(arg[p].req.blinded_elements) = 2
        /\ DeserializeElement(arg[p].req.blinded_elements[1]) # -1
        /\ DeserializeElement(arg[p].req.blinded_elements[2]) = -1

\* ---- C17
\* C17: when create_keypair returns Ok(pk) the key store holds under key_id a
\* keypair whose public key is pk, whatever it held there before, and is
\* unchanged elsewhere; when it returns SeedError the key store is unchanged;
\* and a call that names a key id holding a keypair does not return
\* KeyIdNotFound.
C17_CreateStoresKeypair ==
    [][\A p \in Procs :
          /\ (pc[p] = "create_insert" /\ pc'[p] = "done") =>
                IF ret'[p].err = "Ok"
                THEN /\ key_store'[arg[p].key_id] # NoKey
                     /\ GetPublicKey(key_store'[arg[p].key_id]) = ret'[p].val
                     /\ \A k \in MessageKeyIds \ {arg[p].key_id} :
                            key_store'[k] = key_store[k]
                ELSE /\ ret'[p].err = "SeedError"
                     /\ key_store' = key_store
          /\ (/\ pc[p] \in RedeemPcs \cup {"issue_get"}
              /\ pc'[p] = "done"
              /\ key_store[CallKeyId(p)] # NoKey)
                => ret'[p].err # "KeyIdNotFound"]_vars

\* A caller holds the public key of the keypair of the last seed, stored
\* under the key id it named.
C17_Witness ==
    \E p \in Procs :
        /\ pc[p] = "done" /\ arg[p].op = "create"
        /\ ret[p].err = "Ok"
        /\ key_store[arg[p].key_id] = NewFromSeed(MaxSeed)
        /\ ret[p].val = GetPublicKey(NewFromSeed(MaxSeed))

\* ---- C19
\* C19: a redeem_token call is refused with DoubleSpending only when its own
\* nonce is in the nonce store and with InvalidToken only for its own token's
\* shape or authenticator; a well-formed token with an unspent nonce passes
\* the nonce check whatever other nonces are spent, one that is valid under
\* the stored keypair passes the comparison, and its insert returns Ok and
\* adds its nonce to the nonces already recorded, none of which is removed.
C19_DistinctNoncesIndependent ==
    [][/\ nonce_store \subseteq nonce_store'
       /\ \A p \in Procs :
            LET token == arg[p].token IN
            (pc[p] \in RedeemPcs /\ pc'[p] \notin {pc[p], "idle"}) =>
                /\ ret'[p].err = "DoubleSpending" => token.nonce \in nonce_store
                /\ ret'[p].err = "InvalidToken" =>
                      \/ TokenShapeError(token)
                      \/ server'[p] # NoKey /\ ~AuthenticatorOf(token, server'[p])
                /\ (/\ pc[p] = "redeem_exists"
                    /\ ~TokenShapeError(token)
                    /\ token.nonce \notin nonce_store) => pc'[p] = "redeem_get"
                /\ (pc[p] = "redeem_get" /\ ValidToken(token, key_store))
                      => pc'[p] = "redeem_insert"
                /\ pc[p] = "redeem_insert" =>
                      /\ ret'[p].err = "Ok"
                      /\ nonce_store' = nonce_store \cup {token.nonce}]_vars

\* Two callers, with tokens of different nonces, have both passed the
\* comparison and are about to record their nonces.
C19_Witness ==
    \E p \in Procs : \E q \in Procs \ {p} :
        /\ pc[p] = "redeem_insert" /\ pc[q] = "redeem_insert"
        /\ arg[p].token.nonce # arg[q].token.nonce

====
